---- MODULE Spec2Model ----
(***************************************************************************)
(* Two parts of the repository are modelled.                               *)
(*                                                                         *)
(* 1. Row-based pagination of positioned shapes (src/src/splitEngine.ts),  *)
(*    specification Spec.                                                  *)
(* 2. The layout calls that stage a DOM tree, let the browser lay it out   *)
(*    and read the rectangles back (src/src/layoutEngine.ts and its later  *)
(*    Box-based revision), specification LayoutSpec.                       *)
(*                                                                         *)
(* splitShapesIntoBoxes exists in two variants: the plain one              *)
(* (args.box, no offset) and the offset-aware one (args.slideBox,          *)
(* args.parentContainerOffset).  One call is modelled as a run             *)
(*   start -> group (one step per sorted shape)                            *)
(*         -> paginate (one step per row) -> done.                         *)
(* Lengths are integers; the algorithm only subtracts, compares and takes  *)
(* max/abs, so a scenario stated in fractions of a pixel is modelled with  *)
(* every length multiplied by a common factor.                             *)
(***************************************************************************)
EXTENDS Integers, Sequences, FiniteSets, TLC

VARIABLES variant, shapes, slideBox, parentContainerOffset, rowEpsilonPx,
          pc, sorted, rows, k, r, activeRows, slideTop, slides, pageRows

(* State of one layout call: its arguments, the position in its sequence   *)
(* of DOM operations, the DOM and what the browser laid out, the           *)
(* rectangles read so far, and the outcome.                                *)
VARIABLES largs, lpc, ip, dom, attached, dirty, layouts, rects,
          wroteAfterRead, oracleError, outcome

layoutVars == <<largs, lpc, ip, dom, attached, dirty, layouts, rects,
                wroteAfterRead, oracleError, outcome>>

vars == <<variant, shapes, slideBox, parentContainerOffset, rowEpsilonPx,
          pc, sorted, rows, k, r, activeRows, slideTop, slides, pageRows,
          layoutVars>>

args == <<variant, shapes, slideBox, parentContainerOffset, rowEpsilonPx>>

(***************************************************************************)
(* Bounds of the enumerated inputs.                                        *)
(***************************************************************************)
MaxShapes == 3

Xs == {0, 1}
Ys == 0..2
Heights == {1, 3}
Epsilons == {0, 1}
SlideHeights == {1, 2, 3}
Offsets == {[x |-> 0, y |-> 0], [x |-> 2, y |-> 1]}
ZeroOffset == [x |-> 0, y |-> 0]

(***************************************************************************)
(* Data: PositionedShape, with a child subtree on every odd id.            *)
(***************************************************************************)
ChildrenOf(i) ==
    IF i % 2 = 1
    THEN << [id |-> 10 * i, x |-> i, y |-> i + 1, width |-> 1, height |-> 1,
             children |-> << >>] >>
    ELSE << >>

PositionedShape(i, x, y, h) ==
    [id |-> i, x |-> x, y |-> y, width |-> i + 1, height |-> h,
     children |-> ChildrenOf(i)]

Abs(n) == IF n < 0 THEN -n ELSE n

Max(a, b) == IF a >= b THEN a ELSE b

(***************************************************************************)
(* The comparator of the sort: by y, ties by x.  Array.prototype.sort is   *)
(* stable, so shapes equal under the comparator keep their input order.    *)
(***************************************************************************)
Before(a, b) == IF a.y # b.y THEN a.y < b.y ELSE a.x < b.x

InsertSorted(s, seq) ==
    SelectSeq(seq, LAMBDA e : ~Before(s, e)) \o <<s>>
        \o SelectSeq(seq, LAMBDA e : Before(s, e))

(* Mutant: the input order is kept. *)
SortShapes_Unsorted(seq) == seq

RECURSIVE SortShapes(_)
SortShapes(seq) ==
    IF seq = << >> THEN << >>
    ELSE InsertSorted(seq[Len(seq)], SortShapes(SubSeq(seq, 1, Len(seq) - 1)))

(***************************************************************************)
(* The page budget: box.height in the plain variant,                       *)
(* slideBox.height - parentContainerOffset.y in the offset-aware one.      *)
(***************************************************************************)
(* Mutant: the offset is not taken off the budget. *)
maxLayoutHeight_FullHeight == slideBox.height

maxLayoutHeight ==
    IF variant = "offset" THEN slideBox.height - parentContainerOffset.y
    ELSE slideBox.height

(* Mutant: only the first active row is emitted. *)
FlatShapes_FirstRowOnly(rs) ==
    IF rs = << >> THEN << >> ELSE rs[1].shapes

RECURSIVE FlatShapes(_)
FlatShapes(rs) ==
    IF rs = << >> THEN << >> ELSE rs[1].shapes \o FlatShapes(Tail(rs))

(* Mutant: the offset is not added back to y. *)
NormalizeShape_NoOffsetY(s) ==
    [s EXCEPT !.x = s.x, !.y = s.y - slideTop]

(* Mutant: x is shifted by the offset. *)
NormalizeShape_ShiftX(s) ==
    [s EXCEPT !.x = s.x + parentContainerOffset.x,
              !.y = s.y - slideTop + parentContainerOffset.y]

(* Mutant: the children are re-based with their parent. *)
NormalizeShape_RebaseChildren(s) ==
    [s EXCEPT !.y = s.y - slideTop + parentContainerOffset.y,
              !.children = [j \in 1..Len(s.children) |->
                              [s.children[j] EXCEPT !.y = @ - slideTop]]]

(* Mutant: the offset-aware variant does not re-base y on the page's top. *)
NormalizeShape_OffsetFromZero(s) ==
    IF variant = "offset"
    THEN [s EXCEPT !.x = s.x, !.y = s.y + parentContainerOffset.y]
    ELSE [s EXCEPT !.x = s.x, !.y = s.y - slideTop]

NormalizeShape(s) ==
    IF variant = "offset"
    THEN [s EXCEPT !.x = s.x, !.y = s.y - slideTop + parentContainerOffset.y]
    ELSE [s EXCEPT !.x = s.x, !.y = s.y - slideTop]

(* Mutant: shapes taller than the budget are left out of the slide. *)
NormalizedShapes_FitOnly ==
    LET flat == SelectSeq(FlatShapes(activeRows),
                          LAMBDA s : s.height <= maxLayoutHeight)
    IN  [j \in 1..Len(flat) |-> NormalizeShape(flat[j])]

NormalizedShapes ==
    LET flat == FlatShapes(activeRows)
    IN  [j \in 1..Len(flat) |-> NormalizeShape(flat[j])]

NewSlide ==
    IF variant = "offset"
    THEN [shapes |-> NormalizedShapes,
          parentContainerOffset |-> parentContainerOffset]
    ELSE [shapes |-> NormalizedShapes]

(* Mutant: the new slide is put in front of the earlier ones. *)
FlushedSlides_Prepend ==
    IF activeRows = << >> THEN slides ELSE <<NewSlide>> \o slides

(* flush(): emits the active rows as one slide; a no-op on no active rows. *)
(* pageRows records, per emitted slide, the indices of the rows it holds.  *)
FlushedSlides == IF activeRows = << >> THEN slides ELSE Append(slides, NewSlide)

FlushedPageRows ==
    IF activeRows = << >> THEN pageRows
    ELSE Append(pageRows, [j \in 1..Len(activeRows) |-> r - Len(activeRows) + j - 1])

(***************************************************************************)
(* Inputs.                                                                 *)
(***************************************************************************)
ShapeList(n, f) ==
    [i \in 1..n |-> PositionedShape(i, f[i][1], f[i][2], f[i][3])]

Box(h) == [width |-> 10, height |-> h]

(* A call of either variant on an enumerated shape list; the plain variant *)
(* takes no offset.                                                        *)
EnumeratedCall ==
    /\ \E n \in 0..MaxShapes : \E f \in [1..n -> Xs \X Ys \X Heights] :
          shapes = ShapeList(n, f)
    /\ \E h \in SlideHeights : slideBox = Box(h)
    /\ rowEpsilonPx \in Epsilons
    /\ \/ variant = "plain" /\ parentContainerOffset = ZeroOffset
       \/ variant = "offset" /\ parentContainerOffset \in Offsets

(* Three rows (0,40) x3, (50,90) x2, (500,540) x1, page height 400.       *)
ScenarioShapes ==
    << PositionedShape(1, 0, 0, 40), PositionedShape(2, 100, 0, 40),
       PositionedShape(3, 200, 0, 40), PositionedShape(4, 0, 50, 40),
       PositionedShape(5, 100, 50, 40), PositionedShape(6, 0, 500, 40) >>

(* y = 0, 0.4, 0 with heights 20 and epsilon 1, all lengths times 5.       *)
TightRowShapes ==
    << PositionedShape(1, 0, 0, 100), PositionedShape(2, 500, 2, 100),
       PositionedShape(3, 1000, 0, 100) >>

(* y = 0, 0, 50 with heights 20 and epsilon 1.                             *)
SeparateRowShapes ==
    << PositionedShape(1, 0, 0, 20), PositionedShape(2, 100, 0, 20),
       PositionedShape(3, 0, 50, 20) >>

ScenarioInputs ==
    { <<ScenarioShapes, Box(400), 1>>,
      <<TightRowShapes, Box(2000), 5>>,
      <<SeparateRowShapes, Box(400), 1>> }

(* A call of either variant on one of the scenarios, without offset. *)
ScenarioStart ==
    /\ \E a \in ScenarioInputs :
          /\ shapes = a[1]
          /\ slideBox = a[2]
          /\ rowEpsilonPx = a[3]
    /\ variant \in {"plain", "offset"}
    /\ parentContainerOffset = ZeroOffset

(* No layout call is in progress. *)
LayoutIdle ==
    /\ largs = [entry |-> "none"]
    /\ lpc = "idle"
    /\ ip = 0
    /\ dom = << >>
    /\ attached = {}
    /\ dirty = FALSE
    /\ layouts = 0
    /\ rects = << >>
    /\ wroteAfterRead = FALSE
    /\ oracleError = "none"
    /\ outcome = [kind |-> "none"]

Init ==
    /\ EnumeratedCall \/ ScenarioStart
    /\ LayoutIdle
    /\ pc = "start"
    /\ sorted = << >>
    /\ rows = << >>
    /\ k = 0
    /\ r = 0
    /\ activeRows = << >>
    /\ slideTop = 0
    /\ slides = << >>
    /\ pageRows = << >>

(***************************************************************************)
(* Steps of one call.                                                      *)
(***************************************************************************)
(* Mutant: empty input gives one page without boxes. *)
ReturnEmpty_OneEmptyPage ==
    /\ pc = "start"
    /\ Len(shapes) = 0
    /\ pc' = "done"
    /\ slides' = << [shapes |-> << >>] >>
    /\ UNCHANGED <<layoutVars, args, sorted, rows, k, r, activeRows, slideTop, pageRows>>

(* if (shapes.length === 0) return []; *)
ReturnEmpty ==
    /\ pc = "start"
    /\ Len(shapes) = 0
    /\ pc' = "done"
    /\ UNCHANGED <<layoutVars, args, sorted, rows, k, r, activeRows, slideTop, slides, pageRows>>

(* Mutant: the argument array itself is sorted. *)
Sort_InPlace ==
    /\ pc = "start"
    /\ Len(shapes) # 0
    /\ shapes' = SortShapes(shapes)
    /\ sorted' = SortShapes(shapes)
    /\ k' = 1
    /\ pc' = "group"
    /\ UNCHANGED <<layoutVars, variant, slideBox, parentContainerOffset, rowEpsilonPx,
                   rows, r, activeRows, slideTop, slides, pageRows>>

(* const sorted = [...shapes].sort(...) *)
Sort ==
    /\ pc = "start"
    /\ Len(shapes) # 0
    /\ sorted' = SortShapes(shapes)
    /\ k' = 1
    /\ pc' = "group"
    /\ UNCHANGED <<layoutVars, args, rows, r, activeRows, slideTop, slides, pageRows>>

(* Mutant: the row's latest member is the reference, not its first. *)
JoinsLastRow_LatestMember(shape) ==
    /\ rows # << >>
    /\ LET last == rows[Len(rows)]
       IN  Abs(shape.y - last.shapes[Len(last.shapes)].y) <= rowEpsilonPx

JoinsLastRow(shape) ==
    /\ rows # << >>
    /\ Abs(shape.y - rows[Len(rows)].top) <= rowEpsilonPx

(* Mutant: the row's bottom is the bottom of its latest member. *)
GroupShape_LatestBottom ==
    /\ pc = "group"
    /\ k <= Len(sorted)
    /\ LET shape == sorted[k]
           top == shape.y
           bottom == shape.y + shape.height
           last == rows[Len(rows)]
       IN  \/ /\ JoinsLastRow(shape)
              /\ rows' = [rows EXCEPT ![Len(rows)] =
                            [top |-> last.top,
                             bottom |-> bottom,
                             shapes |-> Append(last.shapes, shape)]]
           \/ /\ ~JoinsLastRow(shape)
              /\ rows' = Append(rows, [top |-> top, bottom |-> bottom,
                                       shapes |-> <<shape>>])
    /\ k' = k + 1
    /\ UNCHANGED <<layoutVars, args, pc, sorted, r, activeRows, slideTop, slides, pageRows>>

(* one iteration of `for (const shape of sorted)` *)
GroupShape ==
    /\ pc = "group"
    /\ k <= Len(sorted)
    /\ LET shape == sorted[k]
           top == shape.y
           bottom == shape.y + shape.height
           last == rows[Len(rows)]
       IN  \/ /\ JoinsLastRow(shape)
              /\ rows' = [rows EXCEPT ![Len(rows)] =
                            [top |-> last.top,
                             bottom |-> Max(last.bottom, bottom),
                             shapes |-> Append(last.shapes, shape)]]
           \/ /\ ~JoinsLastRow(shape)
              /\ rows' = Append(rows, [top |-> top, bottom |-> bottom,
                                       shapes |-> <<shape>>])
    /\ k' = k + 1
    /\ UNCHANGED <<layoutVars, args, pc, sorted, r, activeRows, slideTop, slides, pageRows>>

(* Mutant: the first page starts at y = 0, not at the first row's top. *)
StartPaging_TopZero ==
    /\ pc = "group"
    /\ k > Len(sorted)
    /\ activeRows' = << >>
    /\ slideTop' = 0
    /\ r' = 1
    /\ pc' = "paginate"
    /\ UNCHANGED <<layoutVars, args, sorted, rows, k, slides, pageRows>>

(* let activeRows = []; let slideTop = rows[0]?.top ?? 0; *)
StartPaging ==
    /\ pc = "group"
    /\ k > Len(sorted)
    /\ activeRows' = << >>
    /\ slideTop' = IF rows # << >> THEN rows[1].top ELSE 0
    /\ r' = 1
    /\ pc' = "paginate"
    /\ UNCHANGED <<layoutVars, args, sorted, rows, k, slides, pageRows>>

(* Mutant: the row's own height is compared with the budget. *)
NeedsBreak_OwnHeight(row) ==
    /\ Len(activeRows) > 0
    /\ row.bottom - row.top > maxLayoutHeight

(* Mutant: a row that exactly fills the budget breaks the page. *)
NeedsBreak_AtBudget(row) ==
    /\ Len(activeRows) > 0
    /\ row.bottom - slideTop >= maxLayoutHeight

(* Mutant: no page break is made when there is no budget. *)
NeedsBreak_OnlyPositiveBudget(row) ==
    /\ Len(activeRows) > 0
    /\ maxLayoutHeight > 0
    /\ row.bottom - slideTop > maxLayoutHeight

NeedsBreak(row) ==
    /\ Len(activeRows) > 0
    /\ row.bottom - slideTop > maxLayoutHeight

(* one iteration of `for (const row of rows)` *)
PlaceRow ==
    /\ pc = "paginate"
    /\ r <= Len(rows)
    /\ LET row == rows[r]
       IN  \/ /\ NeedsBreak(row)
              /\ slides' = FlushedSlides
              /\ pageRows' = FlushedPageRows
              /\ slideTop' = row.top
              /\ activeRows' = <<row>>
           \/ /\ ~NeedsBreak(row)
              /\ activeRows' = Append(activeRows, row)
              /\ UNCHANGED <<slides, pageRows, slideTop>>
    /\ r' = r + 1
    /\ UNCHANGED <<layoutVars, args, pc, sorted, rows, k>>

(* Mutant: the slides are returned without the trailing flush. *)
FinalFlush_NoFlush ==
    /\ pc = "paginate"
    /\ r > Len(rows)
    /\ pc' = "done"
    /\ UNCHANGED <<layoutVars, args, sorted, rows, k, r, activeRows, slideTop,
                   slides, pageRows>>

(* the trailing flush(); return slides; *)
FinalFlush ==
    /\ pc = "paginate"
    /\ r > Len(rows)
    /\ slides' = FlushedSlides
    /\ pageRows' = FlushedPageRows
    /\ activeRows' = << >>
    /\ pc' = "done"
    /\ UNCHANGED <<layoutVars, args, sorted, rows, k, r, slideTop>>

Next ==
    \/ ReturnEmpty
    \/ Sort
    \/ GroupShape
    \/ StartPaging
    \/ PlaceRow
    \/ FinalFlush

Spec == Init /\ [][Next]_vars


(***************************************************************************)
(* The variant without offset (lines 7-78) as a function of its arguments. *)
(***************************************************************************)
(* for (const shape of sorted), lines 29-40 *)
RECURSIVE PlainRows(_, _, _)
PlainRows(acc, seq, eps) ==
    IF seq = << >> THEN acc
    ELSE LET shape == seq[1]
             top == shape.y
             bottom == shape.y + shape.height
             last == acc[Len(acc)]
         IN  IF acc # << >> /\ Abs(top - last.top) <= eps
             THEN PlainRows([acc EXCEPT ![Len(acc)] =
                               [top |-> last.top,
                                bottom |-> Max(last.bottom, bottom),
                                shapes |-> Append(last.shapes, shape)]],
                            Tail(seq), eps)
             ELSE PlainRows(Append(acc, [top |-> top, bottom |-> bottom,
                                         shapes |-> <<shape>>]),
                            Tail(seq), eps)

(* flush(), lines 47-63 *)
PlainFlush(acc, active, top) ==
    IF active = << >> THEN acc
    ELSE LET flat == FlatShapes(active)
         IN  Append(acc, [shapes |-> [j \in 1..Len(flat) |->
                                        [flat[j] EXCEPT !.x = flat[j].x,
                                                        !.y = flat[j].y - top]]])

(* for (const row of rows) and the trailing flush(), lines 65-77 *)
RECURSIVE PlainPages(_, _, _, _, _)
PlainPages(acc, active, top, rest, height) ==
    IF rest = << >> THEN PlainFlush(acc, active, top)
    ELSE LET row == rest[1]
             neededHeight == row.bottom - top
         IN  IF Len(active) > 0 /\ neededHeight > height
             THEN PlainPages(PlainFlush(acc, active, top), <<row>>, row.top,
                             Tail(rest), height)
             ELSE PlainPages(acc, Append(active, row), top, Tail(rest), height)

splitShapesIntoBoxes(ss, box, eps) ==
    IF Len(ss) = 0 THEN << >>
    ELSE LET rs == PlainRows(<< >>, SortShapes(ss), eps)
         IN  PlainPages(<< >>, << >>, rs[1].top, rs, box.height)

(***************************************************************************)
(* Calls of the offset-aware variant whose offset takes the whole slide    *)
(* or more: the budget is 0 or negative.  The call runs alone and to       *)
(* completion (both loops are for-of loops over arrays that are not        *)
(* extended while they run), hence the weak fairness.                      *)
(***************************************************************************)
Overshoots == {0, 1}

ExhaustedBudgetCall ==
    /\ \E n \in 0..MaxShapes : \E f \in [1..n -> {0} \X Ys \X Heights] :
          shapes = ShapeList(n, f)
    /\ \E h \in SlideHeights : \E over \in Overshoots :
          /\ slideBox = Box(h)
          /\ parentContainerOffset = [x |-> 0, y |-> h + over]
    /\ rowEpsilonPx \in Epsilons
    /\ variant = "offset"

ExhaustedInit ==
    /\ ExhaustedBudgetCall
    /\ LayoutIdle
    /\ pc = "start"
    /\ sorted = << >>
    /\ rows = << >>
    /\ k = 0
    /\ r = 0
    /\ activeRows = << >>
    /\ slideTop = 0
    /\ slides = << >>
    /\ pageRows = << >>

ExhaustedSpec == ExhaustedInit /\ [][Next]_vars /\ WF_vars(Next)

(***************************************************************************)
(* Layout calls.                                                           *)
(*                                                                         *)
(* Three entry points: getPositionedShapes (one level),                    *)
(* getPositionedShapesWithChildren (two levels, optional wrapper           *)
(* containers) and getPositionedBoxes (a Box tree of any depth).  A call   *)
(* runs its DOM operations one per step, in the order of the code; the     *)
(* browser is the layout oracle: it lays the attached tree out when a      *)
(* measurement finds it dirty, and it may fail at any operation.           *)
(***************************************************************************)
MaxNodes == 4
MaxDepth == 3

OracleSeeds == {1, 2}
OracleErrors == {"LayoutOracleError", "TypeError"}
ContainerBoxes ==
    { [width |-> 40, height |-> 30], [width |-> 0, height |-> 30],
      [width |-> 40, height |-> -1] }
Constraints == {"fixed", "variable"}

OffScreenPx == 10000

RECURSIVE Flatten(_)
Flatten(ss) == IF ss = << >> THEN << >> ELSE ss[1] \o Flatten(Tail(ss))

(* The forests of n nodes and at most d levels; a node is the sequence of  *)
(* its children.                                                           *)
RECURSIVE ForestShapes(_, _)
ForestShapes(n, d) ==
    IF n = 0 THEN { << >> }
    ELSE IF d = 0 THEN {}
    ELSE UNION { { <<kids>> \o rest : kids \in ForestShapes(m - 1, d - 1),
                                      rest \in ForestShapes(n - m, d) } :
                 m \in 1..n }

(* Shape / Box: the id of a node encodes its path, so ids are unique. *)
RECURSIVE ShapeForest(_, _)
ShapeForest(f, prefix) ==
    [i \in 1..Len(f) |->
        [id |-> 10 * prefix + i,
         width |-> 2 + i,
         height |-> 5 + i,
         children |-> ShapeForest(f[i], 10 * prefix + i)]]

(* Box ids are chosen by the caller and need not be unique: here a node is  *)
(* named by its place among its siblings alone, so nodes of different      *)
(* parents, and the root, can share an id.                                 *)
RECURSIVE SiblingIdForest(_)
SiblingIdForest(forest) ==
    [i \in 1..Len(forest) |->
        [forest[i] EXCEPT !.id = i - 1,
                          !.children = SiblingIdForest(forest[i].children)]]

InputForests ==
    UNION { { ShapeForest(f, 0) : f \in ForestShapes(n, MaxDepth) } : n \in 0..MaxNodes }

RootId == 0

(* rootBox of getPositionedBoxes: the container's size is in its css. *)
RootBox(a) ==
    [id |-> RootId, width |-> a.containerBox.width,
     height |-> a.containerBox.height, children |-> a.shapes]

(* DOM elements of a call. *)
Container == [kind |-> "container", path |-> << >>]
ParentLayoutContainer == [kind |-> "parentLayoutContainer", path |-> << >>]
NodeEl(path) == [kind |-> "node", path |-> path]
ChildContainerEl(path) == [kind |-> "childContainer", path |-> path]

RECURSIVE ShapeAt(_, _)
ShapeAt(forest, path) ==
    IF Len(path) = 1 THEN forest[path[1]]
    ELSE ShapeAt(forest[path[1]].children, Tail(path))

(* DOM operations. *)
CreateOp(e) == [op |-> "create", el |-> e, parent |-> e]
AppendOp(p, e) == [op |-> "append", el |-> e, parent |-> p]
AttachOp == [op |-> "attach", el |-> Container, parent |-> Container]
ReflowOp == [op |-> "reflow", el |-> Container, parent |-> Container]
ReadOp(e) == [op |-> "read", el |-> e, parent |-> e]
DetachOp == [op |-> "detach", el |-> Container, parent |-> Container]

(* Mutant: the container is left in the document. *)
ShapesPlan_NoCleanup(a) ==
    LET n == Len(a.shapes)
    IN  <<CreateOp(Container)>>
        \o Flatten([i \in 1..n |->
                      <<CreateOp(NodeEl(<<i>>)), AppendOp(Container, NodeEl(<<i>>))>>])
        \o <<AttachOp, ReflowOp, ReadOp(Container)>>
        \o [i \in 1..n |-> ReadOp(NodeEl(<<i>>))]

(* getPositionedShapes: the operations of lines 76-153. *)
ShapesPlan(a) ==
    LET n == Len(a.shapes)
    IN  <<CreateOp(Container)>>
        \o Flatten([i \in 1..n |->
                      <<CreateOp(NodeEl(<<i>>)), AppendOp(Container, NodeEl(<<i>>))>>])
        \o <<AttachOp, ReflowOp, ReadOp(Container)>>
        \o [i \in 1..n |-> ReadOp(NodeEl(<<i>>))]
        \o <<DetachOp>>

HasChildContainer(a, shape) ==
    Len(shape.children) > 0 /\ a.childContainerCss

(* getPositionedShapesWithChildren: the operations of lines 287-506. *)
WithChildrenBuild(a, i) ==
    LET shape == a.shapes[i]
        pe == NodeEl(<<i>>)
        cc == ChildContainerEl(<<i>>)
        m == Len(shape.children)
    IN  <<CreateOp(pe)>>
        \o (IF HasChildContainer(a, shape) THEN <<CreateOp(cc)>> ELSE << >>)
        \o Flatten([j \in 1..m |->
                      <<CreateOp(NodeEl(<<i, j>>)),
                        AppendOp(IF HasChildContainer(a, shape) THEN cc ELSE pe,
                                 NodeEl(<<i, j>>))>>])
        \o (IF HasChildContainer(a, shape) THEN <<AppendOp(pe, cc)>> ELSE << >>)
        \o <<AppendOp(IF a.parentContainerCss THEN ParentLayoutContainer
                      ELSE Container, pe)>>

WithChildrenRead(a, i) ==
    LET shape == a.shapes[i]
        cc == ChildContainerEl(<<i>>)
        m == Len(shape.children)
    IN  <<ReadOp(NodeEl(<<i>>))>>
        \o (IF a.parentContainerCss THEN <<ReadOp(ParentLayoutContainer)>> ELSE << >>)
        \o (IF HasChildContainer(a, shape) THEN <<ReadOp(cc)>> ELSE << >>)
        \o Flatten([j \in 1..m |->
                      <<ReadOp(NodeEl(<<i, j>>))>>
                      \o (IF HasChildContainer(a, shape) THEN <<ReadOp(cc)>> ELSE << >>)])

WithChildrenPlan(a) ==
    LET n == Len(a.shapes)
    IN  <<CreateOp(Container)>>
        \o (IF a.parentContainerCss THEN <<CreateOp(ParentLayoutContainer)>> ELSE << >>)
        \o Flatten([i \in 1..n |-> WithChildrenBuild(a, i)])
        \o (IF a.parentContainerCss
            THEN <<AppendOp(Container, ParentLayoutContainer)>> ELSE << >>)
        \o <<AttachOp, ReflowOp, ReadOp(Container)>>
        \o (IF a.parentContainerCss THEN <<ReadOp(ParentLayoutContainer)>> ELSE << >>)
        \o Flatten([i \in 1..n |-> WithChildrenRead(a, i)])
        \o <<DetachOp>>

(* Mutant: each element is measured as soon as it is appended. *)
RECURSIVE BuildTreeOps_Interleaved(_, _, _)
BuildTreeOps_Interleaved(rootElement, children, path) ==
    Flatten([i \in 1..Len(children) |->
               LET el == NodeEl(Append(path, i))
               IN  <<CreateOp(el)>>
                   \o BuildTreeOps_Interleaved(el, children[i].children, Append(path, i))
                   \o <<AppendOp(rootElement, el), ReadOp(el)>>])

(* buildTree: creates, fills and then appends the element of each child. *)
RECURSIVE BuildTreeOps(_, _, _)
BuildTreeOps(rootElement, children, path) ==
    Flatten([i \in 1..Len(children) |->
               LET el == NodeEl(Append(path, i))
               IN  <<CreateOp(el)>>
                   \o BuildTreeOps(el, children[i].children, Append(path, i))
                   \o <<AppendOp(rootElement, el)>>])

(* The assignments boxToElement[c.id] = elementForChild, in order. *)
RECURSIVE Registrations(_, _)
Registrations(children, path) ==
    Flatten([i \in 1..Len(children) |->
               << [id |-> children[i].id, el |-> NodeEl(Append(path, i))] >>
               \o Registrations(children[i].children, Append(path, i))])

(* Mutant: an id that is already registered keeps its first element. *)
PutEntry_FirstWins(entries, reg) ==
    IF \E j \in 1..Len(entries) : entries[j].id = reg.id
    THEN entries
    ELSE Append(entries, reg)

(* A Record keeps one entry per key: a later assignment replaces the value *)
(* in place.                                                               *)
PutEntry(entries, reg) ==
    IF \E j \in 1..Len(entries) : entries[j].id = reg.id
    THEN [j \in 1..Len(entries) |->
            IF entries[j].id = reg.id THEN reg ELSE entries[j]]
    ELSE Append(entries, reg)

RECURSIVE PutAll(_, _)
PutAll(entries, regs) ==
    IF regs = << >> THEN entries
    ELSE PutAll(PutEntry(entries, regs[1]), Tail(regs))

BoxToElement(rootBox) ==
    PutAll(<< [id |-> rootBox.id, el |-> Container] >>,
           Registrations(rootBox.children, << >>))

(* getPositionedBoxes: the operations of lines 32-92; no forced reflow. *)
BoxesPlan(a) ==
    LET entries == BoxToElement(RootBox(a))
    IN  <<CreateOp(Container)>>
        \o BuildTreeOps(Container, RootBox(a).children, << >>)
        \o <<AttachOp, ReadOp(Container)>>
        \o [j \in 1..Len(entries) |-> ReadOp(entries[j].el)]
        \o <<DetachOp>>

Plan ==
    CASE largs.entry = "getPositionedShapes" -> ShapesPlan(largs)
      [] largs.entry = "getPositionedShapesWithChildren" -> WithChildrenPlan(largs)
      [] largs.entry = "getPositionedBoxes" -> BoxesPlan(largs)
      [] OTHER -> << >>

(***************************************************************************)
(* The layout oracle.  The container sits off screen at its declared size; *)
(* every other element is placed relative to its DOM parent, by its place  *)
(* among the siblings and by the oracle's choice; a shape measures its     *)
(* declared size only under the first choice.                             *)
(***************************************************************************)
IsChildOf(e, p) == \E j \in 1..Len(dom[p]) : dom[p][j] = e

HasParent(e) == \E p \in DOMAIN dom : IsChildOf(e, p)

ParentOf(e) == CHOOSE p \in DOMAIN dom : IsChildOf(e, p)

IndexOf(e) == CHOOSE j \in 1..Len(dom[ParentOf(e)]) : dom[ParentOf(e)][j] = e

RECURSIVE RootOf(_)
RootOf(e) == IF HasParent(e) THEN RootOf(ParentOf(e)) ELSE e

InDocument(e) == RootOf(e) \in attached

ZeroRect == [left |-> 0, top |-> 0, width |-> 0, height |-> 0]

RECURSIVE LaidOutRect(_)
LaidOutRect(e) ==
    IF e = Container
    THEN [left |-> -OffScreenPx, top |-> -OffScreenPx,
          width |-> largs.containerBox.width,
          height |-> largs.containerBox.height]
    ELSE LET pr == LaidOutRect(ParentOf(e))
             i == IndexOf(e)
         IN  [left |-> pr.left + largs.oracle + 3 * (i - 1),
              top |-> pr.top + 2 * largs.oracle + (i - 1),
              width |-> IF e.kind = "node"
                        THEN ShapeAt(largs.shapes, e.path).width + largs.oracle - 1
                        ELSE pr.width - 1,
              height |-> IF e.kind = "node"
                         THEN ShapeAt(largs.shapes, e.path).height + largs.oracle - 1
                         ELSE pr.height - 1]

(* element.getBoundingClientRect() *)
BoundingClientRect(e) == IF InDocument(e) THEN LaidOutRect(e) ELSE ZeroRect


(***************************************************************************)
(* Results, computed from the rectangles read.                             *)
(***************************************************************************)
(* Mutant: the measured size is used whatever the constraint. *)
ResolvedSize_Measured(constraint, shape, rect) ==
    [width |-> rect.width, height |-> rect.height]

ResolvedSize(constraint, shape, rect) ==
    [width |-> IF constraint = "fixed" THEN shape.width ELSE rect.width,
     height |-> IF constraint = "fixed" THEN shape.height ELSE rect.height]

(* getPositionedShapes, lines 128-150: the children of a shape are not     *)
(* part of the output.                                                     *)
ShapesResult(a) ==
    [i \in 1..Len(a.shapes) |->
        LET shape == a.shapes[i]
            rect == rects[NodeEl(<<i>>)]
            containerRect == rects[Container]
            size == ResolvedSize(a.shapeDimensionConstraint, shape, rect)
        IN  [id |-> shape.id,
             x |-> rect.left - containerRect.left,
             y |-> rect.top - containerRect.top,
             width |-> size.width,
             height |-> size.height,
             children |-> << >>]]

(* Mutant: the wrapper's offset is not computed. *)
ParentContainerOffset_Zero(a) == [x |-> 0, y |-> 0]

(* lines 412-419 *)
ParentContainerOffset(a) ==
    IF a.parentContainerCss
    THEN [x |-> rects[ParentLayoutContainer].left - rects[Container].left,
          y |-> rects[ParentLayoutContainer].top - rects[Container].top]
    ELSE [x |-> 0, y |-> 0]

(* Mutant: the child container's offset is not baked in. *)
ChildContainerOffset_Zero(a, i) == [x |-> 0, y |-> 0]

(* lines 445-453 *)
ChildContainerOffset(a, i) ==
    IF HasChildContainer(a, a.shapes[i])
    THEN [x |-> rects[ChildContainerEl(<<i>>)].left - rects[NodeEl(<<i>>)].left,
          y |-> rects[ChildContainerEl(<<i>>)].top - rects[NodeEl(<<i>>)].top]
    ELSE [x |-> 0, y |-> 0]

(* lines 456-490: a child is emitted without children of its own. *)
PositionedChild(a, i, j) ==
    LET childShape == a.shapes[i].children[j]
        childRect == rects[NodeEl(<<i, j>>)]
        referenceRect == IF HasChildContainer(a, a.shapes[i])
                         THEN rects[ChildContainerEl(<<i>>)]
                         ELSE rects[NodeEl(<<i>>)]
        off == ChildContainerOffset(a, i)
        size == ResolvedSize(a.childDimensionConstraint, childShape, childRect)
    IN  [id |-> childShape.id,
         x |-> (childRect.left - referenceRect.left) + off.x,
         y |-> (childRect.top - referenceRect.top) + off.y,
         width |-> size.width,
         height |-> size.height,
         children |-> << >>]

(* lines 422-503 *)
PositionedParent(a, i) ==
    LET shape == a.shapes[i]
        parentRect == rects[NodeEl(<<i>>)]
        referenceRect == IF a.parentContainerCss THEN rects[ParentLayoutContainer]
                         ELSE rects[Container]
        off == ParentContainerOffset(a)
        size == ResolvedSize(a.parentDimensionConstraint, shape, parentRect)
    IN  [id |-> shape.id,
         x |-> (parentRect.left - referenceRect.left) + off.x,
         y |-> (parentRect.top - referenceRect.top) + off.y,
         width |-> size.width,
         height |-> size.height,
         children |-> [j \in 1..Len(shape.children) |-> PositionedChild(a, i, j)]]

WithChildrenResult(a) ==
    [shapes |-> [i \in 1..Len(a.shapes) |-> PositionedParent(a, i)],
     parentContainerOffset |-> ParentContainerOffset(a)]

(* getPositionedBoxes, lines 63-90: every entry is measured against the    *)
(* rectangle of the root container.                                        *)
BoxPosition(el) ==
    [width |-> rects[el].width,
     height |-> rects[el].height,
     x |-> rects[el].left - rects[Container].left,
     y |-> rects[el].top - rects[Container].top]

BoxIdToPositionAndDimension(rootBox, id) ==
    LET entries == BoxToElement(rootBox)
        j == CHOOSE n \in 1..Len(entries) : entries[n].id = id
    IN  BoxPosition(entries[j].el)

(* Mutant: the children are emitted in reverse order. *)
RECURSIVE PositionsForBox_Reversed(_, _)
PositionsForBox_Reversed(rootBox, box) ==
    LET positionedBox == BoxIdToPositionAndDimension(rootBox, box.id)
        n == Len(box.children)
    IN  [id |-> box.id,
         x |-> positionedBox.x,
         y |-> positionedBox.y,
         width |-> positionedBox.width,
         height |-> positionedBox.height,
         children |-> [j \in 1..n |->
                         PositionsForBox_Reversed(rootBox, box.children[n + 1 - j])]]

RECURSIVE PositionsForBox(_, _)
PositionsForBox(rootBox, box) ==
    LET positionedBox == BoxIdToPositionAndDimension(rootBox, box.id)
    IN  [id |-> box.id,
         x |-> positionedBox.x,
         y |-> positionedBox.y,
         width |-> positionedBox.width,
         height |-> positionedBox.height,
         children |-> [j \in 1..Len(box.children) |->
                         PositionsForBox(rootBox, box.children[j])]]

Result ==
    CASE largs.entry = "getPositionedShapes" -> ShapesResult(largs)
      [] largs.entry = "getPositionedShapesWithChildren" -> WithChildrenResult(largs)
      [] largs.entry = "getPositionedBoxes" -> PositionsForBox(RootBox(largs), RootBox(largs))

(* The validation of lines 66-73 and 277-284; getPositionedBoxes has none. *)
EmptyInput(a) == Len(a.shapes) = 0

DegenerateContainer(a) == a.containerBox.width <= 0 \/ a.containerBox.height <= 0

ReturnsEarly(a) ==
    /\ a.entry \in {"getPositionedShapes", "getPositionedShapesWithChildren"}
    /\ EmptyInput(a) \/ DegenerateContainer(a)

EarlyResult(a) ==
    IF a.entry = "getPositionedShapes" THEN << >>
    ELSE [shapes |-> << >>, parentContainerOffset |-> [x |-> 0, y |-> 0]]

(* Mutant: the error is caught and an empty result returned. *)
Raise_Swallowed(err) == [kind |-> "returned", value |-> << >>]

(* No entry point catches: an error of the oracle leaves the call as is.   *)
Raise(err) == [kind |-> "threw", error |-> err]

(***************************************************************************)
(* The calls.                                                              *)
(***************************************************************************)
(* What the document holds besides the staged tree. *)
AppRoot == [kind |-> "app", path |-> << >>]

SplitIdle ==
    /\ variant = "plain"
    /\ shapes = << >>
    /\ slideBox = Box(0)
    /\ parentContainerOffset = ZeroOffset
    /\ rowEpsilonPx = 0
    /\ pc = "idle"
    /\ sorted = << >>
    /\ rows = << >>
    /\ k = 0
    /\ r = 0
    /\ activeRows = << >>
    /\ slideTop = 0
    /\ slides = << >>
    /\ pageRows = << >>

LayoutArgs ==
    \E f \in InputForests, cb \in ContainerBoxes, o \in OracleSeeds :
        \/ \E c \in Constraints :
              largs = [entry |-> "getPositionedShapes", shapes |-> f,
                       containerBox |-> cb, oracle |-> o,
                       shapeDimensionConstraint |-> c]
        \/ \E pcc \in BOOLEAN, ccc \in BOOLEAN, pd \in Constraints, cd \in Constraints :
              largs = [entry |-> "getPositionedShapesWithChildren", shapes |-> f,
                       containerBox |-> cb, oracle |-> o,
                       parentContainerCss |-> pcc, childContainerCss |-> ccc,
                       parentDimensionConstraint |-> pd,
                       childDimensionConstraint |-> cd]
        \/ \E g \in {f, SiblingIdForest(f)} :
              largs = [entry |-> "getPositionedBoxes", shapes |-> g,
                       containerBox |-> cb, oracle |-> o]

LayoutInit ==
    /\ SplitIdle
    /\ LayoutArgs
    /\ lpc = "call"
    /\ ip = 0
    /\ dom = (AppRoot :> << >>)
    /\ attached = {AppRoot}
    /\ dirty = FALSE
    /\ layouts = 0
    /\ rects = << >>
    /\ wroteAfterRead = FALSE
    /\ oracleError = "none"
    /\ outcome = [kind |-> "none"]

splitVars == <<variant, shapes, slideBox, parentContainerOffset, rowEpsilonPx,
               pc, sorted, rows, k, r, activeRows, slideTop, slides, pageRows>>

ReturnEarly ==
    /\ lpc = "call"
    /\ ReturnsEarly(largs)
    /\ outcome' = [kind |-> "returned", value |-> EarlyResult(largs)]
    /\ lpc' = "returned"
    /\ UNCHANGED <<splitVars, oracleError, largs, ip, dom, attached, dirty, layouts, rects,
                   wroteAfterRead>>

BeginStaging ==
    /\ lpc = "call"
    /\ ~ReturnsEarly(largs)
    /\ lpc' = "run"
    /\ ip' = 1
    /\ UNCHANGED <<splitVars, oracleError, largs, dom, attached, dirty, layouts, rects,
                   wroteAfterRead, outcome>>

AtOp(kind) == lpc = "run" /\ ip <= Len(Plan) /\ Plan[ip].op = kind

(* document.createElement("div") *)
CreateElement ==
    /\ AtOp("create")
    /\ dom' = (Plan[ip].el :> << >>) @@ dom
    /\ wroteAfterRead' = (wroteAfterRead \/ rects # << >>)
    /\ ip' = ip + 1
    /\ UNCHANGED <<splitVars, oracleError, largs, lpc, attached, dirty, layouts, rects, outcome>>

(* parent.appendChild(element) *)
AppendChild ==
    /\ AtOp("append")
    /\ dom' = [dom EXCEPT ![Plan[ip].parent] = Append(@, Plan[ip].el)]
    /\ dirty' = (dirty \/ InDocument(Plan[ip].parent))
    /\ wroteAfterRead' = (wroteAfterRead \/ rects # << >>)
    /\ ip' = ip + 1
    /\ UNCHANGED <<splitVars, oracleError, largs, lpc, attached, layouts, rects, outcome>>

(* document.body.appendChild(container) *)
AttachContainer ==
    /\ AtOp("attach")
    /\ attached' = attached \cup {Container}
    /\ dirty' = TRUE
    /\ wroteAfterRead' = (wroteAfterRead \/ rects # << >>)
    /\ ip' = ip + 1
    /\ UNCHANGED <<splitVars, oracleError, largs, lpc, dom, layouts, rects, outcome>>

(* container.offsetHeight: the browser lays the document out if dirty. *)
ForceReflow ==
    /\ AtOp("reflow")
    /\ layouts' = IF dirty THEN layouts + 1 ELSE layouts
    /\ dirty' = FALSE
    /\ ip' = ip + 1
    /\ UNCHANGED <<splitVars, oracleError, largs, lpc, dom, attached, rects, wroteAfterRead,
                   outcome>>

(* element.getBoundingClientRect(): lays out first if dirty. *)
ReadRect ==
    /\ AtOp("read")
    /\ rects' = (Plan[ip].el :> BoundingClientRect(Plan[ip].el)) @@ rects
    /\ layouts' = IF dirty THEN layouts + 1 ELSE layouts
    /\ dirty' = FALSE
    /\ ip' = ip + 1
    /\ UNCHANGED <<splitVars, oracleError, largs, lpc, dom, attached, wroteAfterRead, outcome>>

(* document.body.removeChild(container) *)
DetachContainer ==
    /\ AtOp("detach")
    /\ attached' = attached \ {Container}
    /\ dirty' = TRUE
    /\ wroteAfterRead' = (wroteAfterRead \/ rects # << >>)
    /\ ip' = ip + 1
    /\ UNCHANGED <<splitVars, oracleError, largs, lpc, dom, layouts, rects, outcome>>

ReturnResult ==
    /\ lpc = "run"
    /\ ip > Len(Plan)
    /\ outcome' = [kind |-> "returned", value |-> Result]
    /\ lpc' = "returned"
    /\ UNCHANGED <<splitVars, oracleError, largs, ip, dom, attached, dirty, layouts, rects,
                   wroteAfterRead>>

(* The oracle fails at the operation the call is about to make. *)
OracleFails ==
    /\ lpc = "run"
    /\ ip <= Len(Plan)
    /\ \E err \in OracleErrors :
          /\ oracleError' = err
          /\ outcome' = Raise(err)
    /\ lpc' = "threw"
    /\ UNCHANGED <<splitVars, largs, ip, dom, attached, dirty, layouts, rects,
                   wroteAfterRead>>

LayoutNext ==
    \/ ReturnEarly
    \/ BeginStaging
    \/ CreateElement
    \/ AppendChild
    \/ AttachContainer
    \/ ForceReflow
    \/ ReadRect
    \/ DetachContainer
    \/ ReturnResult
    \/ OracleFails

LayoutSpec == LayoutInit /\ [][LayoutNext]_vars

(***************************************************************************)
(* getPositionsForBox on its own: the function that turns a Box tree and   *)
(* the map of measurements into the PositionedBox tree, applied to maps    *)
(* that may lack ids of the tree.                                          *)
(***************************************************************************)
(* Box trees: a root over a forest. *)
BoxTrees ==
    { [id |-> RootId, children |-> f] : f \in InputForests }

RECURSIVE BoxIds(_)
BoxIds(box) ==
    {box.id} \cup UNION { BoxIds(box.children[i]) : i \in 1..Len(box.children) }

(* An entry of boxIdToPositionAndDimension. *)
MeasuredEntry(id) ==
    [x |-> id, y |-> 2 * id, width |-> id + 3, height |-> id + 4]

(* Mutant: a node without an entry is emitted at the origin with no size. *)
RECURSIVE getPositionsForBox_Defaulted(_, _)
getPositionsForBox_Defaulted(box, boxToPositions) ==
    LET children == [j \in 1..Len(box.children) |->
                       getPositionsForBox_Defaulted(box.children[j], boxToPositions)]
        positionedBox == IF box.id \in DOMAIN boxToPositions
                         THEN boxToPositions[box.id]
                         ELSE [x |-> 0, y |-> 0, width |-> 0, height |-> 0]
    IN  [kind |-> "returned",
         value |-> [id |-> box.id,
                    x |-> positionedBox.x,
                    y |-> positionedBox.y,
                    width |-> positionedBox.width,
                    height |-> positionedBox.height,
                    children |-> [j \in 1..Len(children) |-> children[j].value]]]

(* boxToPositions[box.id] is undefined for an id the map lacks.  Spreading *)
(* undefined adds no field; the children are mapped next, so an error      *)
(* below comes first; then positionedBox.style reads a property of         *)
(* undefined, which is a TypeError.                                        *)
RECURSIVE getPositionsForBox(_, _)
getPositionsForBox(box, boxToPositions) ==
    LET children == [j \in 1..Len(box.children) |->
                       getPositionsForBox(box.children[j], boxToPositions)]
    IN  IF \E j \in 1..Len(children) : children[j].kind = "threw"
        THEN Raise("TypeError")
        ELSE IF box.id \notin DOMAIN boxToPositions
        THEN Raise("TypeError")
        ELSE LET positionedBox == boxToPositions[box.id]
             IN  [kind |-> "returned",
                  value |-> [id |-> box.id,
                             x |-> positionedBox.x,
                             y |-> positionedBox.y,
                             width |-> positionedBox.width,
                             height |-> positionedBox.height,
                             children |-> [j \in 1..Len(children) |->
                                             children[j].value]]]

NormalizeInit ==
    /\ SplitIdle
    /\ \E box \in BoxTrees : \E present \in SUBSET BoxIds(box) :
          largs = [entry |-> "getPositionsForBox", box |-> box,
                   boxToPositions |-> [id \in present |-> MeasuredEntry(id)]]
    /\ lpc = "call"
    /\ ip = 0
    /\ dom = << >>
    /\ attached = {}
    /\ dirty = FALSE
    /\ layouts = 0
    /\ rects = << >>
    /\ wroteAfterRead = FALSE
    /\ oracleError = "none"
    /\ outcome = [kind |-> "none"]

CallGetPositionsForBox ==
    /\ lpc = "call"
    /\ largs.entry = "getPositionsForBox"
    /\ outcome' = getPositionsForBox(largs.box, largs.boxToPositions)
    /\ lpc' = outcome'.kind
    /\ UNCHANGED <<splitVars, oracleError, largs, ip, dom, attached, dirty, layouts,
                   rects, wroteAfterRead>>

NormalizeNext == CallGetPositionsForBox

NormalizeSpec == NormalizeInit /\ [][NormalizeNext]_vars

(***************************************************************************)
(* Vocabulary of the properties.                                           *)
(***************************************************************************)
Done == pc = "done"

Ids(seq) == [j \in 1..Len(seq) |-> seq[j].id]

IdSet(seq) == { seq[j].id : j \in 1..Len(seq) }

RECURSIVE SlideShapes(_)
SlideShapes(ss) ==
    IF ss = << >> THEN << >> ELSE ss[1].shapes \o SlideShapes(Tail(ss))

EmittedShapes == SlideShapes(slides)

InputShape(id) == CHOOSE s \in { shapes[j] : j \in 1..Len(shapes) } : s.id = id

MinY(seq) == CHOOSE m \in { seq[j].y : j \in 1..Len(seq) } :
                 \A j \in 1..Len(seq) : m <= seq[j].y

MaxBottom(rs) == CHOOSE m \in { rs[j].bottom : j \in 1..Len(rs) } :
                     \A j \in 1..Len(rs) : m >= rs[j].bottom

PageRowRecords(p) == [j \in 1..Len(pageRows[p]) |-> rows[pageRows[p][j]]]

Oversized(row) == row.bottom - row.top > maxLayoutHeight

(* C1: when the call returns, every input box is on exactly one page: the  *)
(* emitted boxes are as many as the input boxes and every input id occurs  *)
(* exactly once among them.                                                *)
C1_CountPreserved ==
    Done =>
        /\ Len(EmittedShapes) = Len(shapes)
        /\ \A i \in 1..Len(shapes) :
              Cardinality({ j \in 1..Len(EmittedShapes) :
                              EmittedShapes[j].id = shapes[i].id }) = 1

C1_Witness ==
    /\ Done
    /\ Len(shapes) = MaxShapes
    /\ Len(slides) >= 2
    /\ \E p \in 1..Len(slides) : Len(pageRows[p]) >= 2

(* C2: on every emitted page the smallest y of the page's top-level boxes  *)
(* is parentContainerOffset.y (0 in the variant without an offset).        *)
C2_PageLocalOrigin ==
    \A p \in 1..Len(slides) :
        MinY(slides[p].shapes) =
            (IF variant = "offset" THEN parentContainerOffset.y ELSE 0)

C2_Witness ==
    /\ Done
    /\ variant = "offset"
    /\ parentContainerOffset.y > 0
    /\ Len(slides) >= 2
    /\ rows[pageRows[2][1]].top > 0

(* C3 as claimed: a page of two or more rows spans at most the budget from *)
(* its top to its largest row bottom, and a row that alone exceeds the     *)
(* budget is the only row of its page.                                     *)
C3_PageFitsBudget ==
    \A p \in 1..Len(pageRows) :
        LET prs == PageRowRecords(p)
        IN  /\ Len(prs) >= 2 => MaxBottom(prs) - prs[1].top <= maxLayoutHeight
            /\ \A j \in 1..Len(prs) : Oversized(prs[j]) => Len(prs) = 1

(* C4: a row whose own height exceeds the budget is neither dropped nor    *)
(* split: exactly one page holds boxes of that row, and it holds them all. *)
C4_OversizedRowKept ==
    Done =>
        \A i \in 1..Len(rows) :
            Oversized(rows[i]) =>
                LET holders == { p \in 1..Len(slides) :
                                   IdSet(rows[i].shapes) \cap IdSet(slides[p].shapes) # {} }
                IN  /\ Cardinality(holders) = 1
                    /\ \A p \in holders :
                          IdSet(rows[i].shapes) \subseteq IdSet(slides[p].shapes)

C4_Witness ==
    /\ Done
    /\ Len(slides) >= 2
    /\ \E i \in 1..Len(rows) : Oversized(rows[i]) /\ Len(rows[i].shapes) >= 2

(* C5: the three-row scenario, rows (0,40) of 3 boxes, (50,90) of 2 boxes  *)
(* and (500,540) of 1 box with page height 400 and no offset, ends with    *)
(* exactly two pages: the five boxes of rows 1 and 2, then the single box  *)
(* of row 3 with y = 0.                                                    *)
ScenarioCall ==
    /\ shapes = ScenarioShapes
    /\ slideBox.height = 400
    /\ parentContainerOffset = ZeroOffset
    /\ rowEpsilonPx = 1

C5_Scenario ==
    (Done /\ ScenarioCall) =>
        /\ [j \in 1..Len(rows) |-> <<rows[j].top, rows[j].bottom, Len(rows[j].shapes)>>]
              = << <<0, 40, 3>>, <<50, 90, 2>>, <<500, 540, 1>> >>
        /\ Len(slides) = 2
        /\ Ids(slides[1].shapes) = <<1, 2, 3, 4, 5>>
        /\ Ids(slides[2].shapes) = <<6>>
        /\ slides[2].shapes[1].y = 0

C5_Witness == Done /\ ScenarioCall /\ variant = "offset"

(* C6: when the call returns, the pages in order hold exactly the boxes of *)
(* the rows in row order; the pages hold consecutive rows (page by page    *)
(* the rows 1, 2, ... in order), and each page holds all the boxes of each *)
(* of its rows.                                                            *)
RECURSIVE Concat(_)
Concat(ss) == IF ss = << >> THEN << >> ELSE ss[1] \o Concat(Tail(ss))

C6_OrderAndRowIntegrity ==
    Done =>
        /\ Ids(EmittedShapes) = Ids(FlatShapes(rows))
        /\ Len(pageRows) = Len(slides)
        /\ Concat(pageRows) = [j \in 1..Len(rows) |-> j]
        /\ \A p \in 1..Len(slides) :
              Ids(slides[p].shapes) = Ids(FlatShapes(PageRowRecords(p)))

C6_Witness ==
    /\ Done
    /\ Len(slides) >= 2
    /\ \E p \in 1..Len(slides) :
          /\ Len(pageRows[p]) >= 2
          /\ \E j \in 1..Len(pageRows[p]) : Len(rows[pageRows[p][j]].shapes) >= 2

(* C7 as claimed: the grouper keeps the encounter order of the input and   *)
(* does not sort: inside every row the boxes are in input order and the    *)
(* rows are in the order in which their first members occur in the input.  *)
(* (The id of an input box is its position in the input.)                  *)
C7_EncounterOrder ==
    /\ \A i \in 1..Len(rows) :
          \A a, b \in 1..Len(rows[i].shapes) :
              a < b => rows[i].shapes[a].id < rows[i].shapes[b].id
    /\ \A i, j \in 1..Len(rows) :
          i < j => rows[i].shapes[1].id < rows[j].shapes[1].id

(* C7 amended: the grouper first sorts the boxes by y, ties by x, keeping  *)
(* input order among boxes equal in both; the rows in order hold the boxes *)
(* in that sorted order.  Boxes with y = 0, 0.4, 0 at increasing x and     *)
(* epsilon 1 give one row holding the first, the third, then the second.   *)
TightRowCall ==
    shapes = TightRowShapes /\ rowEpsilonPx = 5

C7_SortedOrder ==
    pc \in {"group", "paginate", "done"} /\ shapes # << >> =>
        /\ Len(sorted) = Len(shapes)
        /\ IdSet(sorted) = IdSet(shapes)
        /\ \A j \in 1..Len(sorted) : sorted[j] = InputShape(sorted[j].id)
        /\ \A a, b \in 1..Len(sorted) :
              a < b =>
                  \/ sorted[a].y < sorted[b].y
                  \/ sorted[a].y = sorted[b].y /\ sorted[a].x < sorted[b].x
                  \/ /\ sorted[a].y = sorted[b].y
                     /\ sorted[a].x = sorted[b].x
                     /\ sorted[a].id < sorted[b].id
        /\ FlatShapes(rows) = SubSeq(sorted, 1, k - 1)
        /\ (TightRowCall /\ pc # "group") =>
              Len(rows) = 1 /\ Ids(rows[1].shapes) = <<1, 3, 2>>

C7_Witness ==
    /\ Done
    /\ TightRowCall
    /\ Ids(sorted) # Ids(shapes)

(* C8: a box joins the current row exactly if a current row exists and the *)
(* box's y is within epsilon of the y of that row's first member; if not,  *)
(* it opens a new row of its own.  Boxes with y = 0, 0, 50 and epsilon 1   *)
(* give two rows: the first two boxes, then the third.                     *)
SeparateRowCall ==
    shapes = SeparateRowShapes /\ rowEpsilonPx = 1

C8_Step ==
    (pc = "group" /\ k' = k + 1) =>
        LET shape == sorted[k]
            joins == /\ Len(rows) > 0
                     /\ Abs(shape.y - rows[Len(rows)].shapes[1].y) <= rowEpsilonPx
        IN  /\ joins =>
                  /\ Len(rows') = Len(rows)
                  /\ rows'[Len(rows)].shapes = Append(rows[Len(rows)].shapes, shape)
            /\ ~joins =>
                  /\ Len(rows') = Len(rows) + 1
                  /\ rows'[Len(rows')].shapes = <<shape>>
                  /\ rows'[Len(rows')].top = shape.y
                  /\ rows'[Len(rows')].bottom = shape.y + shape.height
            /\ \A i \in 1..Len(rows) : i < Len(rows) => rows'[i] = rows[i]

C8_Example ==
    (pc' = "paginate" /\ SeparateRowCall) =>
        [i \in 1..Len(rows') |-> Ids(rows'[i].shapes)] = << <<1, 2>>, <<3>> >>

C8_RowMembership == [][C8_Step /\ C8_Example]_vars

(* A row of two members with different y, followed by a row opened by a    *)
(* box within epsilon of the latest member but not of the first.           *)
C8_Witness ==
    /\ pc = "paginate"
    /\ Len(rows) >= 2
    /\ Len(rows[1].shapes) >= 2
    /\ Abs(rows[2].top - rows[1].shapes[Len(rows[1].shapes)].y) <= rowEpsilonPx
    /\ Abs(rows[2].top - rows[1].top) > rowEpsilonPx

(* C9 as claimed: every emitted top-level box has x' = x + pageOffset.x.   *)
C9_XShifted ==
    \A j \in 1..Len(EmittedShapes) :
        EmittedShapes[j].x =
            InputShape(EmittedShapes[j].id).x + parentContainerOffset.x

(* C9 amended: every emitted top-level box keeps its x: x' = x, whatever   *)
(* offset the caller supplies.                                             *)
C9_XUnchanged ==
    \A j \in 1..Len(EmittedShapes) :
        EmittedShapes[j].x = InputShape(EmittedShapes[j].id).x

C9_Witness ==
    /\ Done
    /\ variant = "offset"
    /\ parentContainerOffset.x # 0
    /\ Len(slides) >= 2
    /\ \E j \in 1..Len(EmittedShapes) : EmittedShapes[j].x # 0

(* C10: every emitted box has the id, width, height and child subtree      *)
(* (children's coordinates included) of the input box it was made from.    *)
C10_OnlyXYChange ==
    \A j \in 1..Len(EmittedShapes) :
        LET e == EmittedShapes[j]
            s == InputShape(e.id)
        IN  /\ e.id \in IdSet(shapes)
            /\ e.width = s.width
            /\ e.height = s.height
            /\ e.children = s.children
            /\ DOMAIN e = DOMAIN s

C10_Witness ==
    /\ Done
    /\ \E j \in 1..Len(EmittedShapes) :
          LET e == EmittedShapes[j]
          IN  /\ e.children # << >>
              /\ e.y # InputShape(e.id).y

(* C11: pagination of an empty shape list returns normally with zero       *)
(* pages.                                                                  *)
C11_EmptyInput ==
    (shapes = << >> /\ pc # "start") => (pc = "done" /\ slides = << >>)

C11_Witness == shapes = << >> /\ pc = "done" /\ variant = "offset"

(***************************************************************************)
(* Vocabulary of the layout properties.                                    *)
(***************************************************************************)
Returned == lpc = "returned"

LaidOut == Returned /\ ~ReturnsEarly(largs)

StagedElements == { Plan[j].el : j \in { n \in 1..Len(Plan) : Plan[n].op = "create" } }

NothingStaged == DOMAIN dom = {AppRoot} /\ attached = {AppRoot}

OracleUntouched == NothingStaged /\ rects = << >> /\ layouts = 0 /\ ~dirty

(* C12 as claimed: with a container of width <= 0 or height <= 0 and a     *)
(* non-empty input, every entry point returns an empty result at once,     *)
(* staging nothing and never contacting the DOM.                           *)
C12_DegenerateContainer ==
    (lpc # "idle" /\ DegenerateContainer(largs) /\ ~EmptyInput(largs)) =>
        /\ OracleUntouched
        /\ lpc \in {"call", "returned"}
        /\ Returned => outcome.value = EarlyResult(largs)

(* C13: in a call that contacts the DOM, a rectangle is read only when     *)
(* every element the call stages has been created and is in the document,  *)
(* and no element is created, appended, attached or detached once a        *)
(* rectangle has been read and before the last one is; the browser lays    *)
(* out at most once, and exactly once in a call that returns its result.   *)
ReadStep == AtOp("read") /\ ip' = ip + 1

C13_Step ==
    /\ ReadStep =>
          /\ ~wroteAfterRead
          /\ \A e \in StagedElements : e \in DOMAIN dom /\ InDocument(e)
    /\ layouts' <= 1
    /\ (lpc' = "returned" /\ ~ReturnsEarly(largs)) => layouts' = 1

C14_NoStagingArtifact ==
    Returned =>
        /\ attached = {AppRoot}
        /\ \A e \in DOMAIN dom : e # AppRoot => ~InDocument(e)
        /\ dom[AppRoot] = << >>

C14_Witness ==
    /\ LaidOut
    /\ largs.entry = "getPositionedShapes"
    /\ Cardinality(DOMAIN dom) >= 4

InputTree ==
    IF largs.entry = "getPositionedBoxes" THEN << RootBox(largs) >> ELSE largs.shapes

OutputTree ==
    CASE largs.entry = "getPositionedShapes" -> outcome.value
      [] largs.entry = "getPositionedShapesWithChildren" -> outcome.value.shapes
      [] largs.entry = "getPositionedBoxes" -> << outcome.value >>

(* The output has the nodes of the input down to level d, in order. *)
RECURSIVE SameTree(_, _, _)
SameTree(in, out, d) ==
    /\ Len(out) = (IF d = 0 THEN 0 ELSE Len(in))
    /\ \A i \in 1..Len(out) :
          /\ out[i].id = in[i].id
          /\ SameTree(in[i].children, out[i].children, d - 1)

EmittedLevels ==
    CASE largs.entry = "getPositionedShapes" -> 1
      [] largs.entry = "getPositionedShapesWithChildren" -> 2
      [] largs.entry = "getPositionedBoxes" -> MaxDepth + 1

HasGrandchildren(forest) ==
    \E i \in 1..Len(forest) : \E j \in 1..Len(forest[i].children) :
        Len(forest[i].children[j].children) > 0

(* C15 as claimed: the output tree of a call that lays out is isomorphic   *)
(* to the input tree, whatever its depth.                                  *)
C15_Isomorphic ==
    LaidOut => SameTree(InputTree, OutputTree, MaxDepth + 1)

(* C15 amended: getPositionedBoxes emits a tree isomorphic to its input at *)
(* any depth; getPositionedShapesWithChildren emits the first two levels   *)
(* of its input and getPositionedShapes the first level, with the same ids *)
(* in the same order, and nothing below.                                   *)
C15_IsomorphicToEmittedLevels ==
    LaidOut => SameTree(InputTree, OutputTree, EmittedLevels)

C15_Witness ==
    /\ LaidOut
    /\ largs.entry = "getPositionedShapesWithChildren"
    /\ HasGrandchildren(largs.shapes)
    /\ Len(largs.shapes) >= 2

(* The ids of a Box tree, in the order the nodes are staged. *)
RECURSIVE TreeIds(_)
TreeIds(box) ==
    <<box.id>> \o Flatten([i \in 1..Len(box.children) |-> TreeIds(box.children[i])])

UniqueIds(box) ==
    \A i, j \in 1..Len(TreeIds(box)) : TreeIds(box)[i] = TreeIds(box)[j] => i = j

(* C16 as claimed: every output node at every depth has x and y equal to   *)
(* its rectangle's left and top minus those of its logical parent's        *)
(* rectangle (the container for a top-level node); the ids of a Box tree   *)
(* are unique.                                                             *)
RECURSIVE ParentRelative(_, _, _)
ParentRelative(out, path, parentEl) ==
    \A i \in 1..Len(out) :
        LET el == NodeEl(Append(path, i))
        IN  /\ out[i].x = rects[el].left - rects[parentEl].left
            /\ out[i].y = rects[el].top - rects[parentEl].top
            /\ ParentRelative(out[i].children, Append(path, i), el)

C16_ParentRelative ==
    (LaidOut /\ (largs.entry = "getPositionedBoxes" => UniqueIds(RootBox(largs)))) =>
        ParentRelative(IF largs.entry = "getPositionedBoxes"
                       THEN outcome.value.children ELSE OutputTree,
                       << >>, Container)

(* C17: with a child container between a parent and its children, each     *)
(* child's position is (child - wrapper) + (wrapper - parent), which is    *)
(* the child's rectangle minus the parent's, and the wrapper is no node of *)
(* the output: the parent's output children are its input children.        *)
C17_WrapperChained ==
    (LaidOut /\ largs.entry = "getPositionedShapesWithChildren") =>
        /\ Len(outcome.value.shapes) = Len(largs.shapes)
        /\ \A i \in 1..Len(largs.shapes) :
              HasChildContainer(largs, largs.shapes[i]) =>
                  LET p == rects[NodeEl(<<i>>)]
                      w == rects[ChildContainerEl(<<i>>)]
                      kids == outcome.value.shapes[i].children
                  IN  /\ Ids(kids) = Ids(largs.shapes[i].children)
                      /\ \A j \in 1..Len(kids) :
                            LET c == rects[NodeEl(<<i, j>>)]
                            IN  /\ kids[j].x = (c.left - w.left) + (w.left - p.left)
                                /\ kids[j].y = (c.top - w.top) + (w.top - p.top)
                                /\ kids[j].x = c.left - p.left
                                /\ kids[j].y = c.top - p.top

C17_Witness ==
    /\ LaidOut
    /\ largs.entry = "getPositionedShapesWithChildren"
    /\ \E i \in 1..Len(largs.shapes) :
          /\ HasChildContainer(largs, largs.shapes[i])
          /\ Len(largs.shapes[i].children) >= 2
          /\ rects[ChildContainerEl(<<i>>)].left # rects[NodeEl(<<i>>)].left

(* C18: getPositionedShapesWithChildren reports as parentContainerOffset   *)
(* the parent wrapper's rectangle minus the container's when the wrapper   *)
(* is staged, and (0,0) when it is not or the call returns early; each     *)
(* top-level box's x, y is its rectangle minus the container's.            *)
C18_WrapperOffset ==
    (Returned /\ largs.entry = "getPositionedShapesWithChildren") =>
        /\ outcome.value.parentContainerOffset =
              (IF ~ReturnsEarly(largs) /\ largs.parentContainerCss
               THEN [x |-> rects[ParentLayoutContainer].left - rects[Container].left,
                     y |-> rects[ParentLayoutContainer].top - rects[Container].top]
               ELSE [x |-> 0, y |-> 0])
        /\ \A i \in 1..Len(outcome.value.shapes) :
              /\ outcome.value.shapes[i].x =
                    rects[NodeEl(<<i>>)].left - rects[Container].left
              /\ outcome.value.shapes[i].y =
                    rects[NodeEl(<<i>>)].top - rects[Container].top

C18_Witness ==
    /\ LaidOut
    /\ largs.entry = "getPositionedShapesWithChildren"
    /\ largs.parentContainerCss
    /\ outcome.value.parentContainerOffset.x # 0
    /\ outcome.value.parentContainerOffset.y # outcome.value.parentContainerOffset.x
    /\ Len(outcome.value.shapes) >= 2

(* C19: a box under the fixed constraint is emitted with its declared      *)
(* width and height, whatever the oracle measured; a box under the         *)
(* variable constraint, and every box of getPositionedBoxes (which has no  *)
(* constraint; ids unique), with the measured width and height.            *)
SizeIs(out, size) == out.width = size.width /\ out.height = size.height

SizeByConstraint(constraint, out, shape, el) ==
    /\ constraint = "fixed" => SizeIs(out, shape)
    /\ constraint = "variable" => SizeIs(out, rects[el])

RECURSIVE MeasuredSizes(_, _)
MeasuredSizes(out, path) ==
    \A i \in 1..Len(out) :
        /\ SizeIs(out[i], rects[NodeEl(Append(path, i))])
        /\ MeasuredSizes(out[i].children, Append(path, i))

C19_SizeByConstraint ==
    LaidOut =>
        CASE largs.entry = "getPositionedShapes" ->
                \A i \in 1..Len(OutputTree) :
                    SizeByConstraint(largs.shapeDimensionConstraint, OutputTree[i],
                                     largs.shapes[i], NodeEl(<<i>>))
          [] largs.entry = "getPositionedShapesWithChildren" ->
                \A i \in 1..Len(OutputTree) :
                    /\ SizeByConstraint(largs.parentDimensionConstraint, OutputTree[i],
                                        largs.shapes[i], NodeEl(<<i>>))
                    /\ \A j \in 1..Len(OutputTree[i].children) :
                          SizeByConstraint(largs.childDimensionConstraint,
                                           OutputTree[i].children[j],
                                           largs.shapes[i].children[j],
                                           NodeEl(<<i, j>>))
          [] largs.entry = "getPositionedBoxes" ->
                UniqueIds(RootBox(largs)) =>
                    /\ SizeIs(outcome.value, rects[Container])
                    /\ MeasuredSizes(outcome.value.children, << >>)

(* A fixed parent measured at another size than declared, with a variable  *)
(* child.                                                                  *)
C19_Witness ==
    /\ LaidOut
    /\ largs.entry = "getPositionedShapesWithChildren"
    /\ largs.parentDimensionConstraint = "fixed"
    /\ largs.childDimensionConstraint = "variable"
    /\ \E i \in 1..Len(largs.shapes) :
          /\ rects[NodeEl(<<i>>)].width # largs.shapes[i].width
          /\ Len(largs.shapes[i].children) > 0

(* C20: when the oracle fails, the call ends with the oracle's own error;  *)
(* nothing runs after the failure (no recovery, no retry), the call never  *)
(* goes back to an earlier operation, and the browser lays out at most     *)
(* once.                                                                   *)
C20_Step ==
    /\ lpc # "threw"
    /\ lpc' = "threw" =>
          /\ oracleError' \in OracleErrors
          /\ outcome' = [kind |-> "threw", error |-> oracleError']
    /\ oracleError' # "none" => lpc' = "threw"
    /\ ip' >= ip
    /\ layouts' <= 1

C20_OracleErrorPropagates == [][C20_Step]_vars

C20_Witness ==
    /\ lpc = "threw"
    /\ outcome.error = "TypeError"
    /\ Container \in attached
    /\ Cardinality(DOMAIN rects) >= 2

(***************************************************************************)
(* Pagination, row by row.                                                 *)
(***************************************************************************)
(* The step that processes row rows[r]. *)
RowStep == pc = "paginate" /\ r <= Len(rows) /\ r' = r + 1

(* C21: when row rows[r] is processed, a page is flushed before it if and  *)
(* only if the current page holds at least one row and                     *)
(* row.bottom - slideTop exceeds the budget; on that flush slideTop        *)
(* becomes row.top; the row joins the current page in every case.          *)
C21_Step ==
    RowStep =>
        LET row == rows[r]
            flushed == Len(slides') = Len(slides) + 1
        IN  /\ flushed <=> (Len(activeRows) >= 1
                            /\ row.bottom - slideTop > maxLayoutHeight)
            /\ ~flushed => slides' = slides
            /\ flushed => slideTop' = row.top /\ activeRows' = <<row>>
            /\ ~flushed => slideTop' = slideTop
                           /\ activeRows' = Append(activeRows, row)
            /\ activeRows'[Len(activeRows')] = row

C21_PageBreakRule == [][C21_Step]_vars

(* A run in which a row exactly filled the budget and stayed on the page   *)
(* and a later row broke it.                                               *)
C21_Witness ==
    /\ Done
    /\ Len(slides) >= 2
    /\ Len(pageRows[1]) >= 2
    /\ MaxBottom(PageRowRecords(1)) - rows[1].top = maxLayoutHeight

(* The offset added back at a flush: none in the variant without offset. *)
PageOffsetY == IF variant = "offset" THEN parentContainerOffset.y ELSE 0

(* C22: whenever a page is in progress, slideTop is the top of the page's  *)
(* first row, so it is at every flush; and every box of an emitted page    *)
(* has y' = y - (top of the page's first row) + the offset's y, where y is *)
(* the box's input y.                                                      *)
C22_FlushAtFirstRowTop ==
    /\ (pc = "paginate" /\ activeRows # << >>) => slideTop = activeRows[1].top
    /\ \A p \in 1..Len(slides) :
          \A j \in 1..Len(slides[p].shapes) :
              LET e == slides[p].shapes[j]
              IN  e.y = InputShape(e.id).y - rows[pageRows[p][1]].top + PageOffsetY

C22_Witness ==
    /\ Done
    /\ variant = "offset"
    /\ parentContainerOffset.y > 0
    /\ Len(slides) >= 2
    /\ rows[1].top > 0
    /\ Len(slides[2].shapes) >= 2

(* C23: when the call returns on a non-empty input, the page in progress   *)
(* has been emitted (the last page holds the last row, however little of   *)
(* the budget it fills), the pages are at least one and at most as many as *)
(* the rows; and no emitted page is ever empty.                            *)
C23_TerminalFlush ==
    /\ \A p \in 1..Len(slides) : slides[p].shapes # << >>
    /\ (Done /\ shapes # << >>) =>
          /\ Len(slides) >= 1
          /\ Len(slides) <= Len(rows)
          /\ IdSet(rows[Len(rows)].shapes)
                \subseteq IdSet(slides[Len(slides)].shapes)

(* The last page fills less than the budget. *)
C23_Witness ==
    /\ Done
    /\ Len(slides) >= 2
    /\ Len(slides) < Len(rows)
    /\ LET prs == PageRowRecords(Len(slides))
       IN  MaxBottom(prs) - prs[1].top < maxLayoutHeight

(* The largest y + height among the boxes of seq. *)
LowestEdge(seq) ==
    CHOOSE m \in { seq[j].y + seq[j].height : j \in 1..Len(seq) } :
        \A j \in 1..Len(seq) : m >= seq[j].y + seq[j].height

(* C24: after each box the row grouper has processed, every row's top is   *)
(* the y of the row's first member and its bottom is the largest           *)
(* y + height of its members.                                              *)
C24_RowExtent ==
    \A i \in 1..Len(rows) :
        /\ rows[i].shapes # << >>
        /\ rows[i].top = rows[i].shapes[1].y
        /\ rows[i].bottom = LowestEdge(rows[i].shapes)

(* A row whose tallest member is not its latest, and whose first member is *)
(* not its tallest.                                                        *)
C24_Witness ==
    /\ pc = "group"
    /\ \E i \in 1..Len(rows) :
          LET m == rows[i].shapes
          IN  /\ Len(m) >= 3
              /\ rows[i].bottom > m[Len(m)].y + m[Len(m)].height
              /\ rows[i].bottom > m[1].y + m[1].height

(***************************************************************************)
(* Box ids.                                                                *)
(***************************************************************************)
(* The element staged last for an id, the root's container being staged    *)
(* first and the others in the order of buildTree.                         *)
StagedInOrder ==
    << [id |-> RootBox(largs).id, el |-> Container] >>
        \o Registrations(RootBox(largs).children, << >>)

LastStaged(id) ==
    LET regs == StagedInOrder
        last == CHOOSE j \in 1..Len(regs) :
                    /\ regs[j].id = id
                    /\ \A n \in 1..Len(regs) : regs[n].id = id => n <= j
    IN  regs[last].el

(* Every node of the output tree carries the rectangle of the element      *)
(* staged last for its id, measured against the container's.               *)
RECURSIVE CarriesLastStaged(_)
CarriesLastStaged(out) ==
    LET rect == rects[LastStaged(out.id)]
    IN  /\ out.x = rect.left - rects[Container].left
        /\ out.y = rect.top - rects[Container].top
        /\ out.width = rect.width
        /\ out.height = rect.height
        /\ \A i \in 1..Len(out.children) : CarriesLastStaged(out.children[i])

(* C25: when nodes of one Box tree share an id, getPositionedBoxes raises  *)
(* no error of its own (it fails only if the oracle does); the map keeps   *)
(* one entry per id, so only the element staged last for an id is          *)
(* measured, and every output node with that id carries that rectangle.    *)
C25_LastWriteWins ==
    largs.entry = "getPositionedBoxes" =>
        /\ lpc = "threw" => oracleError \in OracleErrors
        /\ Returned =>
              /\ DOMAIN rects =
                    {Container} \cup { LastStaged(TreeIds(RootBox(largs))[j]) :
                                         j \in 1..Len(TreeIds(RootBox(largs))) }
              /\ CarriesLastStaged(outcome.value)

(* Two nodes below the root share an id, and so do the root and a node.    *)
C25_Witness ==
    /\ Returned
    /\ largs.entry = "getPositionedBoxes"
    /\ ~UniqueIds(RootBox(largs))
    /\ LastStaged(RootId) # Container
    /\ \E i \in 1..Len(largs.shapes) : \E j \in 1..Len(largs.shapes[i].children) :
          /\ largs.shapes[i].children[j].id = 1
          /\ i = 2
    /\ outcome.value.x # 0

(***************************************************************************)
(* Normalization against an incomplete map.                                *)
(***************************************************************************)
MissingIds == BoxIds(largs.box) \ DOMAIN largs.boxToPositions

RECURSIVE FromMap(_)
FromMap(out) ==
    /\ out.id \in DOMAIN largs.boxToPositions
    /\ LET e == largs.boxToPositions[out.id]
       IN  out.x = e.x /\ out.y = e.y /\ out.width = e.width /\ out.height = e.height
    /\ \A i \in 1..Len(out.children) : FromMap(out.children[i])

(* C26: when the map has no entry for the id of some node of the tree,     *)
(* getPositionsForBox ends with an error and yields no tree; when it       *)
(* yields a tree, every node's coordinates and size come from the map.     *)
C26_MissingEntryFails ==
    (largs.entry = "getPositionsForBox" /\ lpc # "call") =>
        /\ MissingIds # {} =>
              /\ lpc = "threw"
              /\ outcome = [kind |-> "threw", error |-> "TypeError"]
        /\ MissingIds = {} => lpc = "returned"
        /\ lpc = "returned" => FromMap(outcome.value)

(* Only a node two levels below the root lacks its entry. *)
C26_Witness ==
    /\ largs.entry = "getPositionsForBox"
    /\ lpc = "threw"
    /\ Cardinality(MissingIds) = 1
    /\ RootId \notin MissingIds
    /\ \A i \in 1..Len(largs.box.children) : largs.box.children[i].id \notin MissingIds

(***************************************************************************)
(* The budget of the offset-aware variant.                                 *)
(***************************************************************************)
EveryRowFits == \A i \in 1..Len(rows) : ~Oversized(rows[i])

(* C27: in the offset-aware variant the budget is                          *)
(* slideBox.height - parentContainerOffset.y, and when every row fits the  *)
(* budget on its own, every emitted box lies between                       *)
(* parentContainerOffset.y and slideBox.height.                            *)
C27_InsideSlide ==
    (variant = "offset" /\ Done) =>
        /\ maxLayoutHeight = slideBox.height - parentContainerOffset.y
        /\ EveryRowFits =>
              \A j \in 1..Len(EmittedShapes) :
                  /\ parentContainerOffset.y <= EmittedShapes[j].y
                  /\ EmittedShapes[j].y + EmittedShapes[j].height <= slideBox.height

(* Two pages, an offset, and a box that ends exactly at the slide's lower  *)
(* edge.                                                                   *)
C27_Witness ==
    /\ Done
    /\ variant = "offset"
    /\ parentContainerOffset.y > 0
    /\ shapes # << >>
    /\ EveryRowFits
    /\ Len(slides) >= 2
    /\ \E j \in 1..Len(EmittedShapes) :
          EmittedShapes[j].y + EmittedShapes[j].height = slideBox.height

(***************************************************************************)
(* No budget at all.                                                       *)
(***************************************************************************)
NoBudget ==
    /\ variant = "offset"
    /\ maxLayoutHeight <= 0
    /\ shapes # << >>
    /\ \A i \in 1..Len(shapes) : shapes[i].height > 0

OnePagePerRow ==
    /\ Len(slides) = Len(rows)
    /\ \A p \in 1..Len(slides) :
          /\ pageRows[p] = <<p>>
          /\ Ids(slides[p].shapes) = Ids(rows[p].shapes)
    /\ Len(EmittedShapes) = Len(shapes)
    /\ IdSet(EmittedShapes) = IdSet(shapes)

(* C28: with a budget of 0 or less and boxes of positive height, the call  *)
(* returns, and it returns exactly one page per row, the pages holding     *)
(* all the boxes.                                                          *)
C28_OnePagePerRow ==
    /\ [](NoBudget => <>Done)
    /\ []((NoBudget /\ Done) => OnePagePerRow)

C28_Witness ==
    /\ Done
    /\ maxLayoutHeight < 0
    /\ Len(rows) >= 2
    /\ Len(slides) = Len(rows)
    /\ Len(shapes) > Len(rows)

(***************************************************************************)
(* The two variants.                                                       *)
(***************************************************************************)
PageShapes(ss) == [p \in 1..Len(ss) |-> ss[p].shapes]

(* C29: called with parentContainerOffset = (0,0) and slideBox = box, the  *)
(* offset-aware variant emits the slides of the variant without offset:    *)
(* as many, with the same boxes in the same order and with the same x and  *)
(* y.                                                                      *)
C29_EquivalentAtZeroOffset ==
    (Done /\ parentContainerOffset = ZeroOffset) =>
        /\ variant = "offset" =>
              PageShapes(slides)
                  = PageShapes(splitShapesIntoBoxes(shapes, slideBox, rowEpsilonPx))
        /\ variant = "plain" =>
              slides = splitShapesIntoBoxes(shapes, slideBox, rowEpsilonPx)

C29_Witness ==
    /\ Done
    /\ variant = "offset"
    /\ parentContainerOffset = ZeroOffset
    /\ Len(shapes) = MaxShapes
    /\ Len(slides) = 2
    /\ Len(rows) = 3
    /\ sorted # shapes
    /\ rows[pageRows[2][1]].top > 0

(***************************************************************************)
(* The arguments.                                                          *)
(***************************************************************************)
(* C30: no step of the call changes the input array or an input box (x, y, *)
(* width, height, children); the sorted copy is not changed once made; the *)
(* rows hold the input boxes themselves, and a step that emits a page      *)
(* leaves them as they are: the emitted boxes are new objects.             *)
C30_Step ==
    /\ shapes' = shapes
    /\ pc # "start" => sorted' = sorted
    /\ slides' # slides => rows' = rows
    /\ \A i \in 1..Len(rows') : \A j \in 1..Len(rows'[i].shapes) :
          \E n \in 1..Len(shapes) : rows'[i].shapes[j] = shapes[n]

C30_InputsUntouched == [][C30_Step]_vars

(* The sort reordered its copy and a page re-based its boxes. *)
C30_Witness ==
    /\ Done
    /\ sorted # shapes
    /\ Len(slides) >= 2
    /\ \E j \in 1..Len(EmittedShapes) :
          /\ EmittedShapes[j].y # InputShape(EmittedShapes[j].id).y
          /\ EmittedShapes[j].children # << >>
          /\ EmittedShapes[j].children = InputShape(EmittedShapes[j].id).children

====
